---- MODULE Spec2Model ----
(***************************************************************************)
(* State-machine model of the fsnotify daemon process of colima            *)
(* (daemon/process/fsnotify/fsnotify.go): the readiness gate, the mount    *)
(* resolver, the directory walk that registers watches, the aggregation    *)
(* loop, Dispatch and the per-event touch goroutines.                      *)
(*                                                                         *)
(* Strings are modelled by what the code does with them.  A file name is   *)
(* the sequence of its characters, so strings.HasPrefix(name, ".") is a    *)
(* test of the first character.  A path is the sequence of the names       *)
(* between its separators: "/w" is << "", "w" >>, "/v/" is                 *)
(* << "", "v", "" >>, "." is << "." >> and "a/b" is << "a", "b" >>.        *)
(***************************************************************************)
EXTENDS Integers, Sequences, FiniteSets, TLC

VARIABLES
    pc,          \* position of Start: idle, gate, config, mounts, walk,
                 \* collect, returned, panicked
    result,      \* what Start returned: "none" until it returns
    cancelled,   \* ctx.Done() is closed
    sawRunning,  \* a poll of the gate found the instance running
    fault,       \* the fatal startup failure the environment produced, if any
    mounts,      \* c.MountsOrDefault(): the configured mount paths
    dirs,        \* f.dirs
    fs,          \* the directory tree below every watch root
    watcher,     \* "none", "open": the fsnotify.Watcher of watch()
    dirIdx,      \* index into f.dirs of the root being walked
    walkStack,   \* fs.WalkDir's recursion: frames of directory and entries left
    addCalls,    \* every watcher.Add call made: root index, node, path argument
    watches,     \* the paths the watcher accepted
    visited,     \* the entries the WalkDir callback was invoked on
    walkFaults,  \* number of enumeration/registration failures so far
    alive,       \* f.alive
    chanClosed,  \* which watcher channel is closed: none, events, errors
    events,      \* the batch being accumulated by the aggregation loop
    nextSeq,     \* arrival number of the next write notification
    dispatched,  \* the batches of the `go f.Dispatch(events)` calls, in call order
    runOrder,    \* the order in which the Dispatch goroutines ran
    tasks        \* the touch goroutines: key << window, index >>

vars == << pc, result, cancelled, sawRunning, fault, mounts, dirs, fs, watcher,
           dirIdx, walkStack, addCalls, watches, visited, walkFaults, alive,
           chanClosed, events, nextSeq, dispatched, runOrder,
           tasks >>

startVars == << mounts, dirs >>
walkVars  == << watcher, dirIdx, walkStack, addCalls, watches, visited, walkFaults >>
loopVars  == << chanClosed, events, nextSeq, dispatched, runOrder, tasks >>

----------------------------------------------------------------------------
(* Bounds of the model. *)

\* enumeration/registration failures the environment injects in one run
MaxFaults == 1
\* write notifications delivered in one run of the lifecycle specification
MaxRecv == 2
\* windows closed in one run
MaxWindows == 2
\* write notifications of the burst specification
MaxBurst == 12

----------------------------------------------------------------------------
(* Names and paths. *)

Empty == << >>
Dot   == << "." >>

\* The characters of the names used, in byte order ('#' < '.' < letters).
Alphabet == << "#", ".", "a", "b", "c", "e", "f", "l", "m" >>

Code(c) == CHOOSE i \in 1..Len(Alphabet) : Alphabet[i] = c

\* strings.HasPrefix(name, ".")
HasDotPrefix(name) == Len(name) >= 1 /\ name[1] = "."

\* string comparison s < t, as os.ReadDir's sort by filename uses it
NameLess(s, t) ==
    \E k \in 0..Len(s) :
        /\ k <= Len(t)
        /\ \A i \in 1..k : s[i] = t[i]
        /\ \/ (k = Len(s) /\ k < Len(t))
           \/ (k < Len(s) /\ k < Len(t) /\ Code(s[k+1]) < Code(t[k+1]))

\* path.Join(name, child) of fs.WalkDir: Join(".", "a") is "a"
PathJoin(name, child) == IF name = << Dot >> THEN << child >> ELSE Append(name, child)

\* strings.TrimSuffix(p, "/")
TrimSlash(p) ==
    IF Len(p) >= 2 /\ p[Len(p)] = Empty THEN SubSeq(p, 1, Len(p) - 1) ELSE p

----------------------------------------------------------------------------
(* The directory trees.  Node 0 is the watch root; the other nodes are    *)
(* entries at fixed places whose name and kind vary.                      *)

Nodes == 1..6

Parent == [n \in Nodes |-> CASE n = 1 -> 0 [] n = 2 -> 0 [] n = 3 -> 2
                             [] n = 4 -> 3 [] n = 5 -> 0 [] n = 6 -> 5]

Entry(name, kind) == [name |-> name, kind |-> kind]

\* name and kind of each node; kind "absent" leaves the node out
TreeOf(k1, n3, k5) ==
    [n \in Nodes |->
        CASE n = 1 -> Entry(<< ".", "e" >>, k1)
          [] n = 2 -> Entry(<< "a" >>, "dir")
          [] n = 3 -> Entry(n3, "dir")
          [] n = 4 -> Entry(<< "c" >>, "dir")
          [] n = 5 -> Entry(<< "l" >>, k5)
          [] n = 6 -> Entry(<< "m" >>, "dir")]

AllTrees ==
    { TreeOf(k1, n3, k5) : k1 \in {"absent", "dir", "file"},
                           n3 \in { << "b" >>, << ".", "b" >> },
                           k5 \in {"dir", "symlink"} }

SmallTrees == { TreeOf("absent", << ".", "b" >>, "symlink") }

\* IsDir as os.Stat would answer it, following a symbolic link
IsDirFollowingLinks(t, n) == n = 0 \/ t[n].kind \in {"dir", "symlink"}

\* fs.DirEntry.IsDir(): false for files and for symbolic links
IsDir(t, n) == n = 0 \/ t[n].kind = "dir"

\* fs.DirEntry.Name(): "." for the root of os.DirFS
NameOf(t, n) == IF n = 0 THEN Dot ELSE t[n].name

Children(t, n) == { c \in Nodes : Parent[c] = n /\ t[c].kind # "absent" }

RECURSIVE SortByName(_, _)
SortByName(t, S) ==
    IF S = {} THEN << >>
    ELSE LET m == CHOOSE x \in S : \A y \in S \ {x} : NameLess(t[x].name, t[y].name)
         IN  << m >> \o SortByName(t, S \ {m})

\* os.ReadDir: the entries of a directory sorted by filename
ReadDir(t, n) == SortByName(t, Children(t, n))

\* the proper ancestors of n below the root
RECURSIVE Ancestors(_)
Ancestors(n) == IF n = 0 \/ Parent[n] = 0 THEN {} ELSE {Parent[n]} \cup Ancestors(Parent[n])

----------------------------------------------------------------------------
(* Initial state: the process as New() returns it, in its environment.    *)

\* the mount lists limautil.InstanceConfig() may hold, as CleanPath returns them
MountConfigs ==
    { << << Empty, << "w" >> >> >>,
      << << Empty, << "w" >>, Empty >>, << Empty, << "v" >> >> >> }

\* the configuration of two mounts
TwoMounts == { m \in MountConfigs : Len(m) = 2 }

InitWith(trees) ==
    /\ pc = "idle"
    /\ result = "none"
    /\ cancelled = FALSE
    /\ sawRunning = FALSE
    /\ fault = "none"
    /\ mounts = << >>
    /\ dirs = << >>
    /\ fs \in trees
    /\ watcher = "none"
    /\ dirIdx = 1
    /\ walkStack = << >>
    /\ addCalls = {}
    /\ watches = {}
    /\ visited = {}
    /\ walkFaults = 0
    /\ alive = FALSE
    /\ chanClosed = "none"
    /\ events = << >>
    /\ nextSeq = 1
    /\ dispatched = << >>
    /\ runOrder = << >>
    /\ tasks = {}

Init == InitWith(SmallTrees)

InitWalk == InitWith(AllTrees)

Running == pc \notin {"idle", "returned", "panicked"}

----------------------------------------------------------------------------
(* Alive and the environment's cancellation. *)

\* Alive that answers without reading the flag
AliveAlwaysNil == "nil"

\* Alive(): nil when f.alive, else the error "not running"
AliveResult == IF alive THEN "nil" ELSE "not running"

\* the supervisor calls Alive(): it takes the lock and reads f.alive
AliveCall ==
    /\ AliveResult \in {"nil", "not running"}
    /\ UNCHANGED vars

\* the supervisor cancels the context handed to Start
Cancel ==
    /\ Running
    /\ ~cancelled
    /\ cancelled' = TRUE
    /\ UNCHANGED << pc, result, sawRunning, fault, alive >>
    /\ UNCHANGED << startVars, fs, walkVars, loopVars >>

----------------------------------------------------------------------------
(* Start: the guest lookup, the readiness gate, the mount resolver. *)

Return(r) ==
    /\ pc' = "returned"
    /\ result' = r

\* Start's first lines: the guest taken from the context
StartCall ==
    /\ pc = "idle"
    /\ \E guestOk \in BOOLEAN :
          IF guestOk
          THEN pc' = "gate" /\ UNCHANGED << result, fault >>
          ELSE Return("guest missing") /\ fault' = "guest"
    /\ UNCHANGED << cancelled, sawRunning, alive >>
    /\ UNCHANGED << startVars, fs, walkVars, loopVars >>

\* what waitForLima does when its select takes ctx.Done(): it returns, and
\* Start goes on to limautil.InstanceConfig()
GateOnCancel == "config"

\* waitForLima, case <-ctx.Done()
GateCancel ==
    /\ pc = "gate"
    /\ cancelled
    /\ pc' = GateOnCancel
    /\ UNCHANGED << result, cancelled, sawRunning, fault, alive >>
    /\ UNCHANGED << startVars, fs, walkVars, loopVars >>

\* whether a poll lets the gate open: err == nil && i.Running()
GateOpens(poll) == poll = "running"

\* waitForLima, case <-after: one poll of limautil.Instance()
GatePoll ==
    /\ pc = "gate"
    /\ \E poll \in {"running", "stopped", "error"} :
          /\ sawRunning' = GateOpens(poll)
          /\ pc' = IF GateOpens(poll) THEN "config" ELSE "gate"
    /\ UNCHANGED << result, cancelled, fault, alive >>
    /\ UNCHANGED << startVars, fs, walkVars, loopVars >>

\* limautil.InstanceConfig()
ConfigStep(configs) ==
    /\ pc = "config"
    /\ \E ok \in BOOLEAN :
          IF ok
          THEN /\ \E m \in configs : mounts' = m
               /\ pc' = "mounts"
               /\ UNCHANGED << result, fault >>
          ELSE /\ Return("error retrieving config")
               /\ fault' = "config"
               /\ UNCHANGED mounts
    /\ UNCHANGED << cancelled, sawRunning, alive, dirs >>
    /\ UNCHANGED << fs, walkVars, loopVars >>

\* a resolver that leaves out the mount whose path it cannot clean
MountSkipped ==
    /\ dirs' = Append(dirs, TrimSlash(mounts[Len(dirs) + 1]))
    /\ UNCHANGED << pc, result >>

\* what Start does when mount.CleanPath() fails
MountFailure == Return("error retrieving mount path") /\ UNCHANGED dirs

\* one iteration of the loop over c.MountsOrDefault()
MountStep ==
    /\ pc = "mounts"
    /\ Len(dirs) < Len(mounts)
    /\ \E ok \in BOOLEAN :
          IF ok
          THEN /\ dirs' = Append(dirs, TrimSlash(mounts[Len(dirs) + 1]))
               /\ UNCHANGED << pc, result, fault >>
          ELSE /\ MountFailure
               /\ fault' = "mount"
    /\ UNCHANGED << cancelled, sawRunning, alive, mounts >>
    /\ UNCHANGED << fs, walkVars, loopVars >>

\* f.watch(ctx): fsnotify.NewWatcher()
NewWatcher ==
    /\ pc = "mounts"
    /\ Len(dirs) = Len(mounts)
    /\ \E ok \in BOOLEAN :
          IF ok
          THEN /\ watcher' = "open"
               /\ pc' = "walk"
               /\ UNCHANGED << result, fault >>
          ELSE /\ Return("error creating watcher")
               /\ fault' = "watcher"
               /\ UNCHANGED watcher
    /\ UNCHANGED << cancelled, sawRunning, alive >>
    /\ UNCHANGED << startVars, fs, dirIdx, walkStack, addCalls, watches, visited,
                    walkFaults, loopVars >>

----------------------------------------------------------------------------
(* watch: fs.WalkDir over every root, with the callback of watch(). *)

\* a hidden test that looks at files only
HiddenFilesOnly(t, n) ==
    NameOf(t, n) # Dot /\ HasDotPrefix(NameOf(t, n)) /\ ~IsDir(t, n)

\* the callback's hidden test: d.Name() != "." && HasPrefix(d.Name(), ".")
Hidden(t, n) == NameOf(t, n) # Dot /\ HasDotPrefix(NameOf(t, n))

\* what the callback returns for an entry
CallbackResult(t, n) == IF Hidden(t, n) THEN "SkipDir" ELSE "nil"

Frame(n, path, rest) == [node |-> n, path |-> path, rest |-> rest]

\* walkDir returning from the directories whose entries are all done
RECURSIVE Unwind(_)
Unwind(st) ==
    IF st # << >> /\ st[Len(st)].rest = << >>
    THEN Unwind(SubSeq(st, 1, Len(st) - 1))
    ELSE st

\* SkipDir returned for an entry that is no directory ends the loop over the
\* entries of its parent
BreakParent(st) == IF st = << >> THEN st ELSE SubSeq(st, 1, Len(st) - 1)

\* walkDir(name, d) for entry n reached with `base` as the frames left
WalkInto(n, path, base, budget) ==
    /\ visited' = visited \cup { << dirIdx, n >> }
    /\ IF CallbackResult(fs, n) = "SkipDir"
       THEN /\ walkStack' = Unwind(IF IsDir(fs, n) THEN base ELSE BreakParent(base))
            /\ UNCHANGED << addCalls, watches, walkFaults >>
       ELSE IF ~IsDir(fs, n)
       THEN /\ walkStack' = Unwind(base)
            /\ UNCHANGED << addCalls, watches, walkFaults >>
       ELSE \E addOk, readOk, addAgainOk \in BOOLEAN :
              LET nf == (IF addOk THEN 0 ELSE 1) + (IF readOk THEN 0 ELSE 1)
                        + (IF addAgainOk THEN 0 ELSE 1)
              IN  /\ readOk => addAgainOk
                  /\ walkFaults + nf <= budget
                  /\ walkFaults' = walkFaults + nf
                  \* watcher.Add(path); after a failed ReadDir the callback runs
                  \* again and adds the same path again
                  /\ addCalls' = addCalls \cup
                                  { [root |-> dirIdx, node |-> n, path |-> path] }
                  /\ watches' = watches \cup
                                  (IF addOk \/ (~readOk /\ addAgainOk) THEN {path} ELSE {})
                  /\ walkStack' = Unwind(Append(base,
                                      Frame(n, path, IF readOk THEN ReadDir(fs, n) ELSE << >>)))
    /\ dirIdx' = IF walkStack' = << >> THEN dirIdx + 1 ELSE dirIdx

\* fs.WalkDir(root, "."): Stat of the root, then walkDir on it.  A failed
\* Stat hands the callback a nil DirEntry, and d.Name() panics.
WalkRoot(budget) ==
    /\ pc = "walk"
    /\ walkStack = << >>
    /\ dirIdx <= Len(dirs)
    /\ \E statOk \in BOOLEAN :
          IF statOk
          THEN /\ WalkInto(0, << Dot >>, << >>, budget)
               /\ UNCHANGED << pc, fault >>
          ELSE /\ pc' = "panicked"
               /\ fault' = "stat"
               /\ UNCHANGED << dirIdx, walkStack, addCalls, watches, visited, walkFaults >>
    /\ UNCHANGED << result, cancelled, sawRunning, alive >>
    /\ UNCHANGED << startVars, fs, watcher, loopVars >>

\* walkDir's loop over the entries of a directory: the next entry
WalkEntry(budget) ==
    /\ pc = "walk"
    /\ walkStack # << >>
    /\ LET top  == walkStack[Len(walkStack)]
           c    == Head(top.rest)
           base == [walkStack EXCEPT ![Len(walkStack)].rest = Tail(top.rest)]
       IN  WalkInto(c, PathJoin(top.path, NameOf(fs, c)), base, budget)
    /\ UNCHANGED << pc, result, cancelled, sawRunning, fault, alive >>
    /\ UNCHANGED << startVars, fs, watcher, loopVars >>

\* a watch() that goes to its loop without setting f.alive
AliveNotSet == FALSE

\* the value stored in f.alive once every root is walked
AliveAfterWalk == TRUE

\* after the loop over f.dirs: f.alive = true, and the aggregation loop starts
WalkDone ==
    /\ pc = "walk"
    /\ walkStack = << >>
    /\ dirIdx > Len(dirs)
    /\ alive' = AliveAfterWalk
    /\ pc' = "collect"
    /\ UNCHANGED << result, cancelled, sawRunning, fault >>
    /\ UNCHANGED << startVars, fs, walkVars, loopVars >>

----------------------------------------------------------------------------
(* The aggregation loop of watch(). *)

\* the file written below a watched directory
File == << "f" >>

\* fsnotify.Op is a bit set
Ops == { {"Write"}, {"Create"}, {"Remove"}, {"Rename"}, {"Chmod"} }

\* a test that takes a created file for a written one
IsWriteOrCreate(op) == "Write" \in op \/ "Create" \in op

\* ev.Op&fsnotify.Write == fsnotify.Write
IsWrite(op) == "Write" \in op

\* the notification the watcher sends for a file of a watched path: Name and
\* Op, with its arrival number and the window it arrives in
Notification(w, op, seq, win) ==
    [seq |-> seq, win |-> win, name |-> PathJoin(w, File), op |-> op]

\* a batch that takes the latest write first
CollectFront(batch, ev) == IF IsWrite(ev.op) THEN << ev >> \o batch ELSE batch

\* the batch after a notification: events = append(events, ev) for a write
Collect(batch, ev) == IF IsWrite(ev.op) THEN Append(batch, ev) ELSE batch

\* case ev, ok := <-watcher.Events, ok
LoopRecvEvent(maxRecv) ==
    /\ pc = "collect"
    /\ chanClosed # "events"
    /\ \E w \in watches, op \in Ops :
          LET ev == Notification(w, op, nextSeq, Len(dispatched) + 1)
          IN  /\ IsWrite(op) => nextSeq <= maxRecv
              /\ events' = Collect(events, ev)
              /\ nextSeq' = IF IsWrite(op) THEN nextSeq + 1 ELSE nextSeq
    /\ UNCHANGED << pc, result, cancelled, sawRunning, fault, alive >>
    /\ UNCHANGED << startVars, fs, walkVars, chanClosed, dispatched, runOrder, tasks >>

\* case err, ok := <-watcher.Errors, ok: the error is logged
LoopRecvError ==
    /\ pc = "collect"
    /\ chanClosed # "errors"
    /\ UNCHANGED vars

\* what the loop returns on a closed channel
ClosedResult == "watcher channel closed"

\* a loop that flushes the batch in progress before it leaves
FlushOnExit(ds, batch) == Append(ds, batch)

\* the batches handed over when the loop leaves on a closed channel
ClosedFlush(ds, batch) == ds

\* case _, ok := <-watcher.Events or <-watcher.Errors, !ok
LoopClosed ==
    /\ pc = "collect"
    /\ chanClosed # "none"
    /\ Return(ClosedResult)
    /\ dispatched' = ClosedFlush(dispatched, events)
    /\ watcher' = "closed"
    /\ UNCHANGED << cancelled, sawRunning, fault, alive >>
    /\ UNCHANGED << startVars, fs, dirIdx, walkStack, addCalls, watches, visited,
                    walkFaults, chanClosed, events, nextSeq, runOrder, tasks >>

\* a loop that keeps the batch over the flush
KeepBatch(batch) == batch

\* the batch the loop goes on with after the timer fired
AfterFlush(batch) == << >>

\* a loop that calls Dispatch in place and waits for its touches: the timer
\* case is not taken while a Dispatch or a touch of an earlier window is
\* still to run
LoopTimerJoin(maxWin) ==
    /\ pc = "collect"
    /\ Len(dispatched) < maxWin
    /\ \A k \in 1..Len(dispatched) : \E i \in 1..Len(runOrder) : runOrder[i] = k
    /\ \A t \in tasks : t.status # "spawned"
    /\ dispatched' = Append(dispatched, events)
    /\ events' = << >>
    /\ UNCHANGED << pc, result, cancelled, sawRunning, fault, alive >>
    /\ UNCHANGED << startVars, fs, walkVars, chanClosed, nextSeq, runOrder, tasks >>

\* case <-after: go f.Dispatch(events); break loop
LoopTimer(maxWin) ==
    /\ pc = "collect"
    /\ Len(dispatched) < maxWin
    /\ dispatched' = Append(dispatched, events)
    /\ events' = AfterFlush(events)
    /\ UNCHANGED << pc, result, cancelled, sawRunning, fault, alive >>
    /\ UNCHANGED << startVars, fs, walkVars, chanClosed, nextSeq, runOrder, tasks >>

\* case <-ctx.Done(): return nil
LoopCancel ==
    /\ pc = "collect"
    /\ cancelled
    /\ Return("nil")
    /\ watcher' = "closed"
    /\ UNCHANGED << cancelled, sawRunning, fault, alive >>
    /\ UNCHANGED << startVars, fs, dirIdx, walkStack, addCalls, watches, visited,
                    walkFaults, loopVars >>

\* the watcher closes one of its channels
CloseChannel ==
    /\ pc = "collect"
    /\ chanClosed = "none"
    /\ chanClosed' \in {"events", "errors"}
    /\ UNCHANGED << pc, result, cancelled, sawRunning, fault, alive >>
    /\ UNCHANGED << startVars, fs, walkVars, events, nextSeq, dispatched, runOrder, tasks >>

----------------------------------------------------------------------------
(* Dispatch and Touch. *)

\* case l > 10
MaxDispatch == 10

\* a cap that keeps the latest events: events[l-10:]
RetainedLast(batch) ==
    IF Len(batch) > MaxDispatch
    THEN SubSeq(batch, Len(batch) - MaxDispatch + 1, Len(batch))
    ELSE batch

\* the events Dispatch keeps: events[:10] when there are more than 10
Retained(batch) ==
    IF Len(batch) > MaxDispatch THEN SubSeq(batch, 1, MaxDispatch) ELSE batch

\* the argument of f.Touch in the goroutine of an event
TouchArg(ev) == ev.name

\* the goroutines Dispatch starts for the batch of window k
Spawned(k, batch) ==
    { [win |-> k, idx |-> i, seq |-> Retained(batch)[i].seq,
       file |-> TouchArg(Retained(batch)[i]), status |-> "spawned", calls |-> 0] :
      i \in 1..Len(Retained(batch)) }

\* the Dispatch goroutine of window k has run
Ran(k) == \E i \in 1..Len(runOrder) : runOrder[i] = k

\* a Dispatch goroutine runs
DispatchRun ==
    /\ \E k \in 1..Len(dispatched) :
          /\ ~Ran(k)
          /\ runOrder' = Append(runOrder, k)
          /\ tasks' = tasks \cup Spawned(k, dispatched[k])
    /\ UNCHANGED << pc, result, cancelled, sawRunning, fault, alive >>
    /\ UNCHANGED << startVars, fs, walkVars, chanClosed, events, nextSeq, dispatched >>

\* a touch that is tried again after it failed
TouchedWithRetry(t, ok) ==
    [t EXCEPT !.calls = @ + 1, !.status = IF ok THEN "ok" ELSE "spawned"]

\* a touch goroutine after f.guest.RunQuiet("touch", file) returned
Touched(t, ok) ==
    [t EXCEPT !.calls = @ + 1, !.status = IF ok THEN "ok" ELSE "failed"]

\* a touch goroutine runs: Touch(ev.Name)
TouchRun ==
    /\ \E t \in tasks, ok \in BOOLEAN :
          /\ t.status = "spawned"
          /\ tasks' = (tasks \ {t}) \cup { Touched(t, ok) }
    /\ UNCHANGED << pc, result, cancelled, sawRunning, fault, alive >>
    /\ UNCHANGED << startVars, fs, walkVars, chanClosed, events, nextSeq, dispatched,
                    runOrder >>

----------------------------------------------------------------------------
(* Specifications. *)

\* the whole lifecycle; the walk meets no failure but the fatal one of a
\* root that cannot be read (the failing directories are in SpecWalk)
Next ==
    \/ StartCall
    \/ Cancel
    \/ GateCancel
    \/ GatePoll
    \/ ConfigStep(TwoMounts)
    \/ MountStep
    \/ NewWatcher
    \/ WalkRoot(0)
    \/ WalkEntry(0)
    \/ WalkDone
    \/ AliveCall
    \/ LoopRecvEvent(MaxRecv)
    \/ LoopRecvError
    \/ LoopClosed
    \/ LoopTimer(MaxWindows)
    \/ LoopCancel
    \/ CloseChannel
    \/ DispatchRun
    \/ TouchRun

Spec == Init /\ [][Next]_vars

\* startup and the walk alone, over every tree and with failing directories
NextWalk ==
    \/ StartCall
    \/ GatePoll
    \/ ConfigStep(MountConfigs)
    \/ MountStep
    \/ NewWatcher
    \/ WalkRoot(MaxFaults)
    \/ WalkEntry(MaxFaults)
    \/ WalkDone
    \/ AliveCall

SpecWalk == InitWalk /\ [][NextWalk]_vars

\* a burst of writes to one file in the first window, in an environment
\* without failures, cancellation or supervisor calls
BurstEnv ==
    /\ fault = "none"
    /\ \A e \in 1..Len(events) : events[e].name = << File >> /\ events[e].op = {"Write"}
    /\ events # << >> => dispatched = << >>
    /\ \A t \in tasks : t.status # "failed"

NextBurst ==
    \/ StartCall /\ BurstEnv'
    \/ GatePoll /\ BurstEnv'
    \/ ConfigStep(TwoMounts) /\ BurstEnv'
    \/ MountStep /\ BurstEnv'
    \/ NewWatcher /\ BurstEnv'
    \/ WalkRoot(0) /\ BurstEnv'
    \/ WalkEntry(0) /\ BurstEnv'
    \/ WalkDone /\ BurstEnv'
    \/ LoopRecvEvent(MaxBurst) /\ BurstEnv'
    \/ LoopTimer(MaxWindows) /\ BurstEnv'
    \/ DispatchRun /\ BurstEnv'
    \/ TouchRun /\ BurstEnv'

SpecBurst == Init /\ [][NextBurst]_vars

\* the lifecycle with the Go scheduler's fairness to the goroutines of
\* Dispatch and Touch: a goroutine that can run does run
FairSpec == Spec /\ WF_vars(DispatchRun) /\ WF_vars(TouchRun)

\* the lifecycle with Start making progress: the statements of Start and
\* watch() are run one after the other, and a select whose ctx.Done() case
\* stays ready takes it in the end (Go chooses at random among the ready
\* cases)
LiveSpec ==
    /\ Spec
    /\ WF_vars(GateCancel)
    /\ WF_vars(ConfigStep(TwoMounts))
    /\ WF_vars(MountStep)
    /\ WF_vars(NewWatcher)
    /\ WF_vars(WalkRoot(0))
    /\ WF_vars(WalkEntry(0))
    /\ WF_vars(WalkDone)
    /\ WF_vars(LoopCancel)

----------------------------------------------------------------------------
(* The claims. *)

TasksOf(k) == { t \in tasks : t.win = k }

Capped(n) == IF n > MaxDispatch THEN MaxDispatch ELSE n

\* C1: a Dispatch call starts touches for at most 10 events, one for each
\* of the first 10 events of its batch in arrival order, and none for the
\* 11th and later.
C1_DispatchCap ==
    \A k \in 1..Len(dispatched) :
        LET b == dispatched[k]
        IN  /\ \A i \in 1..(Len(b) - 1) : b[i].seq < b[i + 1].seq
            /\ ~Ran(k) => TasksOf(k) = {}
            /\ Ran(k) =>
                  /\ Cardinality(TasksOf(k)) <= MaxDispatch
                  /\ Cardinality(TasksOf(k)) = Capped(Len(b))
                  /\ \A i \in 1..Capped(Len(b)) :
                        \E t \in TasksOf(k) : t.idx = i /\ t.seq = b[i].seq

\* a batch of more than 10 events was dispatched and its 10 touches started
C1_Witness ==
    \E k \in 1..Len(dispatched) :
        /\ Len(dispatched[k]) > MaxDispatch
        /\ Ran(k)
        /\ Cardinality(TasksOf(k)) = MaxDispatch

\* every retained event of a Dispatch call that ran has one touch goroutine,
\* with the event's path, which has called the guest once when it is over
TouchSafety ==
    /\ \A k \in 1..Len(dispatched) :
          Ran(k) =>
             \A i \in 1..Capped(Len(dispatched[k])) :
                LET ts == { t \in TasksOf(k) : t.idx = i }
                IN  /\ Cardinality(ts) = 1
                    /\ \A t \in ts : /\ t.file = dispatched[k][i].name
                                     /\ t.seq = dispatched[k][i].seq
    /\ \A t \in tasks :
          /\ t.win \in 1..Len(dispatched)
          /\ t.idx \in 1..Capped(Len(dispatched[t.win]))
          /\ t.status = "spawned" => t.calls = 0
          /\ t.status \in {"ok", "failed"} => t.calls = 1

\* every Dispatch call has run and every touch goroutine has made its call
AllTouched ==
    /\ \A k \in 1..Len(dispatched) : Ran(k)
    /\ \A t \in tasks : t.calls = 1

\* C2: every retained event of a dispatched batch has exactly one touch
\* goroutine, whose argument is the event's path; the goroutine calls the
\* guest at most once, and in the end exactly once, whatever became of the
\* touches of the other events.
C2_OneTouchPerEvent == []TouchSafety /\ <>[]AllTouched

\* in one batch a touch failed and the touch of another path succeeded
C2_Witness ==
    \E t1, t2 \in tasks :
        /\ t1.win = t2.win
        /\ t1.file # t2.file
        /\ t1.status = "failed"
        /\ t2.status = "ok"
        /\ t1.idx < t2.idx

\* every watch root has been walked and the loop over f.dirs is left
RegistrationComplete ==
    /\ watcher # "none"
    /\ pc \notin {"walk", "panicked"}
    /\ dirIdx > Len(dirs)
    /\ \A i \in 1..Len(dirs) : << i, 0 >> \in visited

\* C3: Alive fails with "not running" before the registration of all watch
\* roots is complete and succeeds ever after, also when the aggregation loop
\* has ended; f.alive never goes from true to false.
C3_AliveIffRegistered ==
    /\ [](AliveResult = "nil" <=> RegistrationComplete)
    /\ [](AliveResult = "not running" <=> ~RegistrationComplete)
    /\ [][alive => alive']_vars
    /\ [][RegistrationComplete => RegistrationComplete']_vars

\* the loop has ended on a closed channel and Alive still succeeds
C3_Witness ==
    /\ pc = "returned"
    /\ result = "watcher channel closed"
    /\ AliveResult = "nil"

\* the name of entry n begins with '.'
DotName(n) == fs[n].name[1] = "."

\* entry n, or an entry between it and the root, has a name beginning with '.'
BelowDot(n) == DotName(n) \/ \E a \in Ancestors(n) : DotName(a)

\* C4: no directory whose name, or the name of one of its ancestors below
\* the root, begins with '.' is passed to watcher.Add, and the walk visits
\* nothing below such a directory.
C4_HiddenNeverRegistered ==
    /\ \A c \in addCalls :
          /\ c.node # 0 => ~BelowDot(c.node)
          /\ c.path # << Dot >> => \A i \in 1..Len(c.path) : c.path[i][1] # "."
    /\ \A v \in visited :
          v[2] # 0 => \A a \in Ancestors(v[2]) : ~DotName(a)

\* the walk is over in a tree with a hidden directory that has a
\* subdirectory; the hidden directory was met and its sibling registered
C4_Witness ==
    /\ pc = "collect"
    /\ \E v \in visited :
          /\ v[2] # 0
          /\ DotName(v[2])
          /\ fs[v[2]].kind = "dir"
          /\ Children(fs, v[2]) # {}
    /\ \E c \in addCalls : c.node # 0

\* entry n is reached only through a symbolic link
BelowLink(n) == \E a \in Ancestors(n) : fs[a].kind = "symlink"

\* C5: an entry that is a symbolic link is never passed to watcher.Add and
\* nothing below it is visited.
C5_SymlinkNeverRegistered ==
    /\ \A c \in addCalls :
          c.node # 0 => fs[c.node].kind # "symlink" /\ ~BelowLink(c.node)
    /\ \A v \in visited : v[2] # 0 => ~BelowLink(v[2])

\* the walk is over and has met a symbolic link that leads to a directory
C5_Witness ==
    /\ pc = "collect"
    /\ \E v \in visited :
          /\ v[2] # 0
          /\ fs[v[2]].kind = "symlink"
          /\ Children(fs, v[2]) # {}

RECURSIVE Flatten(_)
Flatten(ss) == IF ss = << >> THEN << >> ELSE Head(ss) \o Flatten(Tail(ss))

\* C6: the write events received in window k are exactly the batch of the
\* k-th Dispatch call, which the timer expiry closing the window makes; the
\* events received since are the batch in progress; no event is in two
\* batches.
C6_OneDispatchPerWindow ==
    /\ [](/\ \A k \in 1..Len(dispatched) :
               \A i \in 1..Len(dispatched[k]) : dispatched[k][i].win = k
          /\ \A i \in 1..Len(events) : events[i].win = Len(dispatched) + 1
          /\ LET all == Flatten(dispatched) \o events
             IN  /\ Len(all) = nextSeq - 1
                 /\ \A i \in 1..Len(all) : all[i].seq = i)
    /\ [][Len(dispatched') # Len(dispatched) =>
             /\ pc = "collect"
             /\ dispatched' = Append(dispatched, events)
             /\ events' = << >>]_vars

\* two windows were closed, each with a write event received in it
C6_Witness ==
    /\ Len(dispatched) = 2
    /\ dispatched[1] # << >>
    /\ dispatched[2] # << >>

\* C7: Start walks and registers nothing before a poll of the gate has
\* found the instance running.
C7_TraversalOnlyAfterRunning ==
    (pc \in {"walk", "collect"} \/ visited # {} \/ addCalls # {}) => sawRunning

\* C8: once Start was cancelled in the gate, the instance never seen
\* running, the mount list is not resolved, nothing is walked or registered,
\* f.alive stays false and Start returns nil.
C8_CancelInGateAborts ==
    (cancelled /\ ~sawRunning) =>
        /\ mounts = << >>
        /\ dirs = << >>
        /\ watcher = "none"
        /\ visited = {}
        /\ addCalls = {}
        /\ ~alive
        /\ pc = "returned" => result = "nil"

\* C9: when limautil.InstanceConfig() or a mount's CleanPath() fails, Start
\* has returned the error, no watcher was created, no directory visited or
\* registered, the aggregation loop never ran and Alive fails.
C9_ResolverErrorsAreFatal ==
    fault \in {"config", "mount"} =>
        /\ pc = "returned"
        /\ result = IF fault = "config" THEN "error retrieving config"
                                        ELSE "error retrieving mount path"
        /\ watcher = "none"
        /\ visited = {}
        /\ addCalls = {}
        /\ watches = {}
        /\ AliveResult = "not running"
        /\ events = << >>
        /\ nextSeq = 1
        /\ dispatched = << >>
        /\ tasks = {}

\* the path of the second mount could not be cleaned, after the first was
\* added to f.dirs
C9_Witness ==
    /\ fault = "mount"
    /\ Len(dirs) = 1
    /\ pc = "returned"

\* the events of the batch in progress are in no Dispatch call and no touch
BatchInProgressDropped ==
    \A i \in 1..Len(events) :
        /\ \A k \in 1..Len(dispatched) :
              \A j \in 1..Len(dispatched[k]) : dispatched[k][j].seq # events[i].seq
        /\ \A t \in tasks : t.seq # events[i].seq

\* C10: when the aggregation loop takes the case of a closed Events or
\* Errors channel, Start returns a non-nil error, no Dispatch call is made
\* for the batch in progress, and Alive goes on succeeding.  Without
\* cancellation the loop is left in no other way.
C10_ClosedChannelEndsLoop ==
    /\ [](result = "watcher channel closed" =>
             /\ pc = "returned"
             /\ chanClosed # "none"
             /\ AliveResult = "nil"
             /\ BatchInProgressDropped)
    /\ [][(pc = "collect" /\ pc' = "returned") =>
             /\ dispatched' = dispatched
             /\ events' = events
             /\ AliveResult = "nil" /\ AliveResult' = "nil"
             /\ result' \in {"nil", "watcher channel closed"}
             /\ result' = "nil" => cancelled
             /\ result' # "nil" => chanClosed # "none"
             /\ (chanClosed # "none" /\ ~cancelled) => result' = "watcher channel closed"]_vars

\* the Events channel was closed while a batch was in progress, and Start
\* returned the error
C10_Witness ==
    /\ pc = "returned"
    /\ result = "watcher channel closed"
    /\ chanClosed = "events"
    /\ events # << >>
    /\ ~cancelled

\* C11: once the context is cancelled while the loop collects, no further
\* batch is handed to Dispatch, also when the timer of the window fires at
\* or after the cancellation: the batch in progress is in no Dispatch call
\* and no touch.
C11_NoDispatchAfterCancel ==
    [][(pc = "collect" /\ cancelled /\ sawRunning /\ events # << >>) =>
          /\ dispatched' = dispatched
          /\ BatchInProgressDropped']_vars

\* path p is absolute: it begins with "/"
IsAbs(p) == Len(p) >= 2 /\ p[1] = Empty

\* path p is root r or lies below it
Under(p, r) == Len(p) >= Len(r) /\ SubSeq(p, 1, Len(r)) = r

\* C12: every path passed to watcher.Add is the absolute path of a watch
\* root or of a directory below it, and every touch names an absolute path
\* below a watch root.
C12_AbsolutePaths ==
    /\ \A c \in addCalls : IsAbs(c.path) /\ Under(c.path, dirs[c.root])
    /\ \A w \in watches : IsAbs(w)
    /\ \A t \in tasks : IsAbs(t.file) /\ \E i \in 1..Len(dirs) : Under(t.file, dirs[i])

\* entry n is a directory, no symbolic link, with a name not beginning with
\* '.', and so is every entry between it and the root
Eligible(n) ==
    /\ fs[n].kind = "dir" /\ ~DotName(n)
    /\ \A a \in Ancestors(n) : fs[a].kind = "dir" /\ ~DotName(a)

\* C13: when no ReadDir and no watcher.Add failed, the walk of every root has
\* passed every eligible directory below it to watcher.Add, whatever files,
\* hidden ones included, lie beside the directory.
C13_EveryEligibleRegistered ==
    (pc = "collect" /\ walkFaults = 0) =>
        \A i \in 1..Len(dirs) :
            \A n \in Nodes :
                Eligible(n) => \E c \in addCalls : c.root = i /\ c.node = n

\* the loop over f.dirs has been left, at its end or by a panic
WalkOver == watcher # "none" /\ pc \in {"collect", "returned", "panicked"}

\* C14: once Start has left the loop over f.dirs, every watch root had a
\* watcher.Add call for the root directory itself, also when ReadDir of the
\* root failed and when the name of the root begins with '.'.
C14_RootAlwaysRegistered ==
    WalkOver =>
        \A i \in 1..Len(dirs) : \E c \in addCalls : c.root = i /\ c.node = 0

\* a directory of the walk could not be stat'ed, read or registered
WalkFailed == walkFaults > 0 \/ fault = "stat"

\* C15: a directory that cannot be read or registered never makes Start
\* return or stop: Start goes on walking, and once the walk is over f.alive
\* is true and every root was visited.
C15_WalkFailuresNotFatal ==
    WalkFailed =>
        /\ pc \in {"walk", "collect"}
        /\ result = "none"
        /\ pc = "collect" => (alive /\ \A i \in 1..Len(dirs) : << i, 0 >> \in visited)

\* every event of a batch, in progress or handed over, is a write
OnlyWrites ==
    /\ \A i \in 1..Len(events) : "Write" \in events[i].op
    /\ \A k \in 1..Len(dispatched) :
          \A j \in 1..Len(dispatched[k]) : "Write" \in dispatched[k][j].op

\* what the loop can do with each notification the watcher may send: a write
\* is appended to the batch, any other kind and an error change nothing
EachKindHandled ==
    (pc = "collect" /\ chanClosed = "none") =>
        /\ \A w \in watches :
              \A op \in Ops :
                 LET ev == Notification(w, op, nextSeq, Len(dispatched) + 1)
                 IN  IF "Write" \in op
                     THEN nextSeq <= MaxRecv =>
                             ENABLED (/\ LoopRecvEvent(MaxRecv)
                                      /\ events' = Append(events, ev)
                                      /\ pc' = "collect"
                                      /\ dispatched' = dispatched)
                     ELSE Collect(events, ev) = events
        /\ \A op \in Ops :
              "Write" \notin op =>
                 \A w \in watches :
                    ~ ENABLED (/\ LoopRecvEvent(MaxRecv)
                               /\ \E i \in 1..Len(events') : events'[i].op = op)
        /\ ENABLED (LoopRecvError /\ UNCHANGED vars)

\* C16: while the loop collects, a notification is appended to the batch if
\* and only if it is a write; a create, remove, rename or chmod and an error
\* of the watcher leave the batch as it is and the loop collecting in the
\* same window.
C16_OnlyWritesCollected ==
    /\ []OnlyWrites
    /\ []EachKindHandled
    /\ [][(pc = "collect" /\ events' # events) =>
             \/ /\ dispatched' = Append(dispatched, events)
                /\ events' = << >>
             \/ /\ Len(events') = Len(events) + 1
                /\ SubSeq(events', 1, Len(events)) = events
                /\ "Write" \in events'[Len(events')].op
                /\ dispatched' = dispatched
                /\ pc' = "collect"]_vars

\* the loop collects a batch that holds a write, and the watcher can still
\* send notifications of every kind
C16_Witness ==
    /\ pc = "collect"
    /\ chanClosed = "none"
    /\ events # << >>
    /\ nextSeq <= MaxRecv
    /\ dispatched # << >>

\* C17 as claimed: Dispatch processes the batch of an earlier window before
\* the batch of any later window.
C17_ProcessedInWindowOrder ==
    /\ \A i \in 1..Len(runOrder) : \A j \in 1..Len(runOrder) :
          i < j => runOrder[i] < runOrder[j]
    /\ \A k \in 1..Len(dispatched) : Ran(k) => \A h \in 1..(k - 1) : Ran(h)

\* the events of every batch are in arrival order, and the batches are in
\* the order of their windows
ArrivalOrder ==
    /\ \A i \in 1..(Len(events) - 1) : events[i].seq < events[i + 1].seq
    /\ \A k \in 1..Len(dispatched) :
          LET b == dispatched[k]
          IN  /\ \A i \in 1..(Len(b) - 1) : b[i].seq < b[i + 1].seq
              /\ \A i \in 1..Len(b) :
                    /\ \A j \in 1..Len(events) : b[i].seq < events[j].seq
                    /\ \A h \in (k + 1)..Len(dispatched) :
                          \A j \in 1..Len(dispatched[h]) : b[i].seq < dispatched[h][j].seq
    /\ \A t1, t2 \in tasks :
          (t1.win = t2.win /\ t1.idx < t2.idx) => t1.seq < t2.seq

\* C17, amended: the batches are handed to Dispatch in the order in which
\* their windows closed, each by a go statement of the loop, and within each
\* batch the events are in arrival order; the Dispatch goroutines themselves
\* may run in any order.
C17_HandedOverInWindowOrder ==
    /\ []ArrivalOrder
    /\ [][dispatched' # dispatched =>
             /\ Len(dispatched') = Len(dispatched) + 1
             /\ SubSeq(dispatched', 1, Len(dispatched)) = dispatched
             /\ \A i \in 1..Len(events) : dispatched'[Len(dispatched')][i].win = Len(dispatched')]_vars
    /\ [][runOrder' # runOrder =>
             /\ Len(runOrder') = Len(runOrder) + 1
             /\ runOrder'[Len(runOrder')] \in 1..Len(dispatched)
             /\ ~Ran(runOrder'[Len(runOrder')])]_vars

\* two batches with events were handed over, and the Dispatch goroutine of
\* the second ran before that of the first
C17_Witness ==
    /\ Len(dispatched) = 2
    /\ dispatched[1] # << >>
    /\ dispatched[2] # << >>
    /\ runOrder = << 2, 1 >>

\* the loop over f.dirs is over: every root was walked to its end
AllRootsWalked ==
    /\ dirIdx > Len(dirs)
    /\ walkStack = << >>
    /\ \A i \in 1..Len(dirs) : << i, 0 >> \in visited

\* the loop has received a notification or closed a window
LoopActed == nextSeq > 1 \/ events # << >> \/ dispatched # << >>

\* C18: the loop takes no notification, and f.alive is not true, before
\* every watch root was walked to its end; f.alive is true before the first
\* notification is taken, and nothing is walked or registered afterwards.
C18_RegistrationBeforeObservation ==
    /\ [](alive => AllRootsWalked)
    /\ [](LoopActed => (alive /\ AllRootsWalked))
    /\ [](~(alive /\ AllRootsWalked) =>
             /\ ~ ENABLED LoopRecvEvent(MaxRecv)
             /\ ~ ENABLED LoopRecvError
             /\ ~ ENABLED LoopTimer(MaxWindows))
    /\ [][(~alive /\ alive') => (~LoopActed /\ ~LoopActed' /\ AllRootsWalked)]_vars
    /\ [][LoopActed => (addCalls' = addCalls /\ visited' = visited)]_vars

\* both roots were walked, f.alive is true and the loop has taken a write
C18_Witness ==
    /\ pc = "collect"
    /\ Len(dirs) = 2
    /\ alive
    /\ events # << >>
    /\ \A i \in 1..2 : \E c \in addCalls : c.root = i

\* a Dispatch goroutine or a touch of a batch handed over is still to run
Pending ==
    \/ \E k \in 1..Len(dispatched) : ~Ran(k)
    \/ \E t \in tasks : t.status = "spawned"

\* C19: the loop never waits for Dispatch or for a touch: with a Dispatch or
\* a touch of an earlier batch still to run, the loop can take a
\* notification, an error, the timer and the cancellation; and a step of a
\* Dispatch or touch goroutine, a touch failing or not, changes nothing of
\* the loop's state.
C19_AggregatorNeverWaits ==
    /\ []((pc = "collect" /\ Pending) =>
             /\ Len(dispatched) < MaxWindows =>
                   ENABLED (LoopTimer(MaxWindows) /\ dispatched' = Append(dispatched, events))
             /\ (chanClosed # "events" /\ nextSeq <= MaxRecv) =>
                   ENABLED (LoopRecvEvent(MaxRecv) /\ Len(events') = Len(events) + 1)
             /\ chanClosed # "errors" => ENABLED LoopRecvError
             /\ cancelled => ENABLED LoopCancel)
    /\ [][(tasks' # tasks \/ runOrder' # runOrder) =>
             UNCHANGED << pc, result, cancelled, alive, watcher, watches, chanClosed,
                          events, nextSeq, dispatched >>]_vars

\* the loop collects after it closed two windows, while a touch of a batch
\* handed over has failed and another is still to run
C19_Witness ==
    /\ pc = "collect"
    /\ Len(dispatched) = 2
    /\ \E t1, t2 \in tasks : t1.status = "spawned" /\ t2.status = "failed"

\* Start has returned for a reason: an error it met, or nil after the
\* context was cancelled
ReturnedForCause ==
    pc = "returned" =>
        /\ result # "none"
        /\ result = "nil" => cancelled
        /\ result = "watcher channel closed" => chanClosed # "none"
        /\ result \notin {"nil", "watcher channel closed"} => fault # "none"

\* C20: once the context is cancelled Start returns in the end, from the
\* gate or from the loop and whatever notifications arrive; and Start
\* returns only with an error it met or, cancelled, with nil.
C20_CancelEndsStart ==
    /\ (cancelled /\ pc \in {"gate", "collect"}) ~> (pc = "returned")
    /\ []ReturnedForCause

====
